---------------------------- MODULE Spec2Model ----------------------------
(***************************************************************************)
(* Model of the calculation backend: the two-argument arithmetic functions *)
(* and the dispatch function compute (app/operations/__init__.py), the     *)
(* compute-only endpoint and the calculation BREAD handlers (app/main.py), *)
(* and the request schemas (app/schemas/calculation.py).                   *)
(*                                                                         *)
(* Numbers are exact rationals <<n, d>> in lowest terms with d > 0, so     *)
(* that division, negative powers and float modulo are computed and not    *)
(* assumed.  Floating-point rounding is not modelled.                      *)
(***************************************************************************)
EXTENDS Integers, Sequences, FiniteSets, TLC

VARIABLES
    fn,       \* which function of app.operations / which endpoint was called
    ctype,    \* the calculation type argument of that call
    inputs,   \* the input list of that call
    out,      \* outcome of that call: a returned value or a raised exception
    db,       \* the calculations table: id -> committed row
    nextId,   \* number of row identifiers handed out so far
    resp,     \* response to the last BREAD request
    served    \* number of BREAD requests served so far

vars == <<fn, ctype, inputs, out, db, nextId, resp, served>>

---------------------------------------------------------------------------
(* Bounds of the model.                                                    *)

MaxVal == 2

MaxLen == 3

MaxIds == 2

MaxRequests == 3

---------------------------------------------------------------------------
(* Exact rational arithmetic.                                              *)

Abs(n) == IF n < 0 THEN -n ELSE n

RECURSIVE GCD(_, _)
GCD(a, b) == IF b = 0 THEN a ELSE GCD(b, a % b)

Norm(n, d) ==
    LET s == IF d < 0 THEN -1 ELSE 1
        g == GCD(Abs(n), Abs(d))
    IN  <<(s * n) \div g, (s * d) \div g>>

Rat(n) == <<n, 1>>

Zero == Rat(0)

One == Rat(1)

RAdd(a, b) == Norm(a[1] * b[2] + b[1] * a[2], a[2] * b[2])

RSub(a, b) == Norm(a[1] * b[2] - b[1] * a[2], a[2] * b[2])

RMul(a, b) == Norm(a[1] * b[1], a[2] * b[2])

\* only used with b # Zero
RQuot(a, b) == Norm(a[1] * b[2], a[2] * b[1])

RFloor(a) == a[1] \div a[2]

RECURSIVE RPowNat(_, _)
RPowNat(a, k) == IF k = 0 THEN One ELSE RMul(a, RPowNat(a, k - 1))

---------------------------------------------------------------------------
(* Outcomes of a call: a returned value, or a raised exception.            *)

Ok(v) == [tag |-> "ok", val |-> v, exc |-> "", status |-> 0, msg |-> ""]

Raise(e, m) == [tag |-> "raise", val |-> Zero, exc |-> e, status |-> 0, msg |-> m]

HTTPException(code, m) ==
    [tag |-> "raise", val |-> Zero, exc |-> "HTTPException", status |-> code, msg |-> m]

Raised(r) == r.tag = "raise"

NoCall == [tag |-> "none", val |-> Zero, exc |-> "", status |-> 0, msg |-> ""]

---------------------------------------------------------------------------
(* app/schemas/calculation.py: the calculation kinds.                      *)

CalculationType ==
    {"addition", "subtraction", "multiplication", "division", "power", "mod"}

---------------------------------------------------------------------------
(* app/operations/__init__.py: the two-argument functions.                 *)

add(a, b) == Ok(RAdd(a, b))

subtract(a, b) == Ok(RSub(a, b))

multiply(a, b) == Ok(RMul(a, b))

divide(a, b) ==
    IF b = Zero THEN Raise("ValueError", "Cannot divide by zero!")
    ELSE Ok(RQuot(a, b))

\* a ** b on floats, for an integral exponent b: 0.0 to a negative power
\* raises ZeroDivisionError.
power(a, b) ==
    IF b[1] >= 0 THEN Ok(RPowNat(a, b[1]))
    ELSE IF a = Zero
         THEN Raise("ZeroDivisionError", "0.0 cannot be raised to a negative power")
         ELSE Ok(RPowNat(RQuot(One, a), -b[1]))

\* fault: the zero check of mod is missing, the float modulo itself raises
mod_unchecked(a, b) ==
    IF b = Zero THEN Raise("ZeroDivisionError", "float modulo")
    ELSE Ok(RSub(a, RMul(b, Rat(RFloor(RQuot(a, b))))))

\* a % b on floats: the result has the sign of b, a - b * floor(a / b).
mod(a, b) ==
    IF b = Zero THEN Raise("ValueError", "Cannot mod by zero!")
    ELSE Ok(RSub(a, RMul(b, Rat(RFloor(RQuot(a, b))))))

---------------------------------------------------------------------------
(* app/operations/__init__.py: compute.                                    *)

\* sum(inputs): the builtin adds left to right starting from 0
RECURSIVE sum_from(_, _)
sum_from(acc, s) ==
    IF s = <<>> THEN acc ELSE sum_from(RAdd(acc, Head(s)), Tail(s))

sum(s) == sum_from(Zero, s)

\* total = a; for x in rest: total -= x
RECURSIVE subtraction_loop(_, _)
subtraction_loop(total, rest) ==
    IF rest = <<>> THEN total
    ELSE subtraction_loop(RSub(total, Head(rest)), Tail(rest))

\* total = 1.0; for x in inputs: total *= x
RECURSIVE multiplication_loop(_, _)
multiplication_loop(total, s) ==
    IF s = <<>> THEN total
    ELSE multiplication_loop(RMul(total, Head(s)), Tail(s))

\* total = float(a); for x in rest: total = divide(total, x)
RECURSIVE division_loop(_, _)
division_loop(total, rest) ==
    IF rest = <<>> THEN Ok(total)
    ELSE LET r == divide(total, Head(rest))
         IN  IF Raised(r) THEN r ELSE division_loop(r.val, Tail(rest))

\* float(x) of a returned number keeps its value
float(r) == r

compute_addition(s) == float(Ok(sum(s)))

\* fault: subtracts only the second input, as a two-argument call would
compute_subtraction_first_two(s) == float(subtract(s[1], s[2]))

compute_subtraction(s) == float(Ok(subtraction_loop(Head(s), Tail(s))))

\* fault: the loop runs over the inputs after the first, the first is lost
compute_multiplication_skip_first(s) == float(Ok(multiplication_loop(One, Tail(s))))

compute_multiplication(s) == float(Ok(multiplication_loop(One, s)))

\* fault: divides by the second input only and never looks at the rest
compute_division_first_divisor(s) == float(divide(Head(s), s[2]))

compute_division(s) == float(division_loop(Head(s), Tail(s)))

\* fault: the input-count check of power is missing
compute_power_unchecked(s) == float(power(s[1], s[2]))

compute_power(s) ==
    IF Len(s) # 2 THEN Raise("ValueError", "Power expects exactly two inputs")
    ELSE float(power(s[1], s[2]))

compute_mod(s) ==
    IF Len(s) # 2 THEN Raise("ValueError", "Mod expects exactly two inputs")
    ELSE float(mod(s[1], s[2]))

\* fault: a kind that matches no branch falls into the addition
compute_try_default_addition(calc_type, s) ==
    CASE calc_type = "subtraction"    -> compute_subtraction(s)
      [] calc_type = "multiplication" -> compute_multiplication(s)
      [] calc_type = "division"       -> compute_division(s)
      [] calc_type = "power"          -> compute_power(s)
      [] calc_type = "mod"            -> compute_mod(s)
      [] OTHER                        -> compute_addition(s)

\* the body of the try block
compute_try(calc_type, s) ==
    CASE calc_type = "addition"       -> compute_addition(s)
      [] calc_type = "subtraction"    -> compute_subtraction(s)
      [] calc_type = "multiplication" -> compute_multiplication(s)
      [] calc_type = "division"       -> compute_division(s)
      [] calc_type = "power"          -> compute_power(s)
      [] calc_type = "mod"            -> compute_mod(s)
      [] OTHER                        -> Raise("ValueError", "Unsupported operation")

\* fault: the ValueError is not translated and leaves compute as it is
except_nothing(r) == r

\* except ValueError as e: raise HTTPException(status_code=400, detail=str(e))
except_ValueError(r) ==
    IF Raised(r) /\ r.exc = "ValueError" THEN HTTPException(400, r.msg) ELSE r

compute(calc_type, s) ==
    IF Len(s) < 2 THEN HTTPException(400, "At least two inputs are required")
    ELSE except_ValueError(compute_try(calc_type, s))

---------------------------------------------------------------------------
(* app/main.py: the compute-only endpoint.                                 *)

ComputeRequestTypes == {"add", "subtract", "multiply", "divide", "power", "mod"}

\* ops = {"add": add, ...}; fn = ops.get(req.type); fn(a, b)
ops(t, a, b) ==
    CASE t = "add"      -> add(a, b)
      [] t = "subtract" -> subtract(a, b)
      [] t = "multiply" -> multiply(a, b)
      [] t = "divide"   -> divide(a, b)
      [] t = "power"    -> power(a, b)
      [] t = "mod"      -> mod(a, b)
      [] OTHER          -> HTTPException(400, "Unsupported calculation type.")

\* request-shape validation of ComputeRequest, done before the handler runs
ComputeRequest(t, s) ==
    IF t \in ComputeRequestTypes THEN Ok(Zero)
    ELSE [tag |-> "raise", val |-> Zero, exc |-> "RequestValidationError",
          status |-> 422, msg |-> "Input should be 'add', 'subtract', 'multiply', 'divide', 'power' or 'mod'"]

compute_endpoint(t, s) ==
    IF Raised(ComputeRequest(t, s)) THEN ComputeRequest(t, s)
    ELSE IF Len(s) < 2 THEN HTTPException(400, "At least two inputs are required.")
    ELSE IF t \in {"divide", "mod"} /\ s[2] = Zero
         THEN HTTPException(400, IF t = "divide" THEN "Cannot divide by zero!"
                                                   ELSE "Cannot mod by zero!")
    ELSE float(ops(t, s[1], s[2]))

\* the status line the framework answers with: 200 with the result, the
\* status of an HTTPException or validation error, 500 for any other exception
StatusOf(r) ==
    IF r.tag = "ok" THEN 200
    ELSE IF r.exc \in {"HTTPException", "RequestValidationError"} THEN r.status
    ELSE 500

NoResp == [op |-> "none", status |-> 0, detail |-> "", body |-> {}]

EmptyDb == [i \in {} |-> 0]

---------------------------------------------------------------------------
(* Calls of the pure functions: the arguments are drawn in the initial     *)
(* state, one action applies one function to them.                         *)

Values == {Rat(n) : n \in (-MaxVal)..MaxVal}

InputSeqs == UNION {[1..n -> Values] : n \in 0..MaxLen}

ComputeKinds == CalculationType \cup {"modulus"}

EndpointTypes == ComputeRequestTypes \cup {"modulus"}

BinaryFunctions == {"add", "subtract", "multiply", "divide", "power", "mod"}

InitCompute ==
    /\ fn = "none"
    /\ ctype = "none"
    /\ inputs \in InputSeqs
    /\ out = NoCall
    /\ db = EmptyDb
    /\ nextId = 0
    /\ resp = NoResp
    /\ served = 0

CallCompute(k) ==
    /\ fn = "none"
    /\ fn' = "compute"
    /\ ctype' = k
    /\ out' = compute(k, inputs)
    /\ UNCHANGED <<inputs, db, nextId, resp, served>>

CallEndpoint(t) ==
    /\ fn = "none"
    /\ fn' = "compute_endpoint"
    /\ ctype' = t
    /\ out' = compute_endpoint(t, inputs)
    /\ UNCHANGED <<inputs, db, nextId, resp, served>>

CallBinary(f) ==
    /\ fn = "none"
    /\ Len(inputs) = 2
    /\ fn' = f
    /\ ctype' = "none"
    /\ out' = ops(f, inputs[1], inputs[2])
    /\ UNCHANGED <<inputs, db, nextId, resp, served>>

---------------------------------------------------------------------------
(* app/models/calculation.py: the persisted calculation variants and their *)
(* factory.  A row is [id, user_id, type, inputs, result, updated_at].     *)

PersistedTypes == {"addition", "subtraction", "multiplication", "division"}

\* Calculation.create(calculation_type, user_id, inputs): the variant of the
\* kind string, result not yet set; any other kind string is unsupported
Calculation_create(calculation_type, user_id, s) ==
    IF calculation_type \in PersistedTypes
    THEN Ok([type |-> calculation_type, user_id |-> user_id, inputs |-> s])
    ELSE Raise("ValueError", "Unsupported calculation type")

\* the reduction of one variant: the first input combined with each later
\* input in order; a division stops at a zero divisor
RECURSIVE variant_reduce(_, _, _)
variant_reduce(type, total, rest) ==
    IF rest = <<>> THEN Ok(total)
    ELSE IF type = "division" /\ Head(rest) = Zero
         THEN Raise("ValueError", "Cannot divide by zero.")
    ELSE variant_reduce(type,
                        CASE type = "addition"       -> RAdd(total, Head(rest))
                          [] type = "subtraction"    -> RSub(total, Head(rest))
                          [] type = "multiplication" -> RMul(total, Head(rest))
                          [] type = "division"       -> RQuot(total, Head(rest)),
                        Tail(rest))

\* get_result() of the variant of kind type on the inputs s
get_result(type, s) ==
    IF Len(s) < 2
    THEN Raise("ValueError", "Inputs must be a list with at least two numbers.")
    ELSE variant_reduce(type, Head(s), Tail(s))

---------------------------------------------------------------------------
(* Calls of the factory and of get_result, on the arguments drawn in the   *)
(* initial state.                                                          *)

Users == {"u1", "u2"}

CallCreate(k, u) ==
    /\ fn = "none"
    /\ fn' = "Calculation.create"
    /\ ctype' = k
    /\ out' = Calculation_create(k, u, inputs)
    /\ UNCHANGED <<inputs, db, nextId, resp, served>>

CallGetResult(k) ==
    /\ fn = "none"
    /\ fn' = "get_result"
    /\ ctype' = k
    /\ out' = get_result(k, inputs)
    /\ UNCHANGED <<inputs, db, nextId, resp, served>>

NextCompute ==
    \/ \E k \in ComputeKinds : CallCompute(k)
    \/ \E t \in EndpointTypes : CallEndpoint(t)
    \/ \E f \in BinaryFunctions : CallBinary(f)
    \/ \E k \in ComputeKinds, u \in Users : CallCreate(k, u)
    \/ \E k \in PersistedTypes : CallGetResult(k)

SpecCompute == InitCompute /\ [][NextCompute]_vars

---------------------------------------------------------------------------
(* app/schemas/calculation.py: request-shape validation (answered 422).    *)

\* an absent "inputs" field of an update request
None == <<<<0, 0>>>>

ValidationError(m) ==
    [tag |-> "raise", val |-> Zero, exc |-> "RequestValidationError",
     status |-> 422, msg |-> m]

\* CalculationBase: validate_type, min_items and validate_inputs
CalculationBase(type, s) ==
    IF type \notin CalculationType
        THEN ValidationError("Type must be one of the calculation types")
    ELSE IF Len(s) < 2
        THEN ValidationError("At least two numbers are required for calculation")
    ELSE IF type = "division" /\ (\E i \in 2..Len(s) : s[i] = Zero)
        THEN ValidationError("Cannot divide by zero")
    ELSE IF type = "mod" /\ (\E i \in 2..Len(s) : s[i] = Zero)
        THEN ValidationError("Cannot mod by zero")
    ELSE IF type \in {"power", "mod"} /\ Len(s) # 2
        THEN ValidationError("expects exactly two inputs")
    ELSE Ok(Zero)

\* CalculationUpdate: min_items and validate_inputs
CalculationUpdate(s) ==
    IF s # None /\ Len(s) < 2
        THEN ValidationError("At least two numbers are required for calculation")
    ELSE Ok(Zero)

---------------------------------------------------------------------------
(* app/main.py: the calculation BREAD handlers.  A handler is one action:  *)
(* the table changes only where the handler reaches db.commit().           *)

\* the malformed identifier of a path, which UUID(calc_id) rejects
BadId == 0

UUID(calc_id) ==
    IF calc_id = BadId THEN Raise("ValueError", "badly formed hexadecimal UUID string")
    ELSE Ok(Zero)

\* fault: the query filters by id only, not by the owner
Found_any_owner(user, calc_id) == calc_id \in DOMAIN db

\* db.query(Calculation).filter(id == calc_uuid, user_id == current_user.id).first()
Found(user, calc_id) == calc_id \in DOMAIN db /\ db[calc_id].user_id = user

Response(op, code, detail, body) ==
    [op |-> op, status |-> code, detail |-> detail, body |-> body]

\* an exception no handler catches: the framework answers 500
Unhandled(op, r) == Response(op, 500, r.msg, {})

create_calculation(user, type, s) ==
    LET v    == CalculationBase(type, s)
        new  == Calculation_create(type, user, s)
        res  == get_result(type, s)
        id   == nextId + 1
        row  == [id |-> id, user_id |-> user, type |-> type, inputs |-> s,
                 result |-> res.val, updated_at |-> "created"]
    IN  IF Raised(v)
        THEN /\ resp' = Response("create", 422, v.msg, {})
             /\ UNCHANGED <<db, nextId>>
        ELSE IF Raised(new)
        THEN /\ resp' = Response("create", 400, new.msg, {})
             /\ UNCHANGED <<db, nextId>>
        ELSE IF Raised(res)
        THEN /\ resp' = Response("create", 400, res.msg, {})
             /\ UNCHANGED <<db, nextId>>
        ELSE /\ nextId < MaxIds
             /\ nextId' = id
             /\ db' = [i \in DOMAIN db \cup {id} |-> IF i = id THEN row ELSE db[i]]
             /\ resp' = Response("create", 201, "", {row})

list_calculations(user) ==
    /\ resp' = Response("list", 200, "", {db[i] : i \in {j \in DOMAIN db : db[j].user_id = user}})
    /\ UNCHANGED <<db, nextId>>

get_calculation(user, calc_id) ==
    /\ resp' = IF Raised(UUID(calc_id))
               THEN Response("get", 400, "Invalid calculation id format.", {})
               ELSE IF ~Found(user, calc_id)
               THEN Response("get", 404, "Calculation not found.", {})
               ELSE Response("get", 200, "", {db[calc_id]})
    /\ UNCHANGED <<db, nextId>>

\* fault: the new inputs are stored and the result is not recomputed
updated_row_stale_result(calc, s, res) ==
    IF s = None
    THEN [calc EXCEPT !.updated_at = "updated"]
    ELSE [calc EXCEPT !.inputs = s, !.updated_at = "updated"]

\* fault: the test for absent inputs is missing, they are stored as given
updated_row_absent_inputs_stored(calc, s, res) ==
    [calc EXCEPT !.inputs = s, !.result = res.val, !.updated_at = "updated"]

\* the row as update_calculation commits it: inputs and result are set only
\* when the request carries inputs, updated_at always
updated_row(calc, s, res) ==
    IF s = None
    THEN [calc EXCEPT !.updated_at = "updated"]
    ELSE [calc EXCEPT !.inputs = s, !.result = res.val, !.updated_at = "updated"]

update_calculation(user, calc_id, s) ==
    LET v   == CalculationUpdate(s)
        res == get_result(db[calc_id].type, s)
        row == updated_row(db[calc_id], s, res)
    IN  IF Raised(v)
        THEN /\ resp' = Response("update", 422, v.msg, {})
             /\ UNCHANGED <<db, nextId>>
        ELSE IF Raised(UUID(calc_id))
        THEN /\ resp' = Response("update", 400, "Invalid calculation id format.", {})
             /\ UNCHANGED <<db, nextId>>
        ELSE IF ~Found(user, calc_id)
        THEN /\ resp' = Response("update", 404, "Calculation not found.", {})
             /\ UNCHANGED <<db, nextId>>
        ELSE IF s # None /\ Raised(res)
        THEN \* get_result() raised: nothing catches it and nothing is committed
             /\ resp' = Unhandled("update", res)
             /\ UNCHANGED <<db, nextId>>
        ELSE /\ db' = [db EXCEPT ![calc_id] = row]
             /\ resp' = Response("update", 200, "", {row})
             /\ UNCHANGED nextId

delete_calculation(user, calc_id) ==
    IF Raised(UUID(calc_id))
    THEN /\ resp' = Response("delete", 400, "Invalid calculation id format.", {})
         /\ UNCHANGED <<db, nextId>>
    ELSE IF ~Found(user, calc_id)
    THEN /\ resp' = Response("delete", 404, "Calculation not found.", {})
         /\ UNCHANGED <<db, nextId>>
    ELSE /\ db' = [i \in DOMAIN db \ {calc_id} |-> db[i]]
         /\ resp' = Response("delete", 204, "", {})
         /\ UNCHANGED nextId

---------------------------------------------------------------------------
(* Requests of the BREAD API, by any user in any order.                    *)

RequestTypes == CalculationType

RequestInputs ==
    { <<Rat(6)>>, <<Rat(6), Rat(2)>>, <<Rat(6), Rat(0)>>, <<Rat(8), Rat(2), Rat(2)>> }

CalcIds == 0..MaxIds

Init ==
    /\ fn = "none"
    /\ ctype = "none"
    /\ inputs = <<>>
    /\ out = NoCall
    /\ db = EmptyDb
    /\ nextId = 0
    /\ resp = NoResp
    /\ served = 0

\* one more request is served; the calls of SpecCompute are not touched
Serve ==
    /\ served < MaxRequests
    /\ served' = served + 1
    /\ UNCHANGED <<fn, ctype, inputs, out>>

Create ==
    /\ Serve
    /\ \E u \in Users, t \in RequestTypes, s \in RequestInputs : create_calculation(u, t, s)

List ==
    /\ Serve
    /\ \E u \in Users : list_calculations(u)

Get ==
    /\ Serve
    /\ \E u \in Users, c \in CalcIds : get_calculation(u, c)

Update ==
    /\ Serve
    /\ \E u \in Users, c \in CalcIds, s \in RequestInputs \cup {None} : update_calculation(u, c, s)

Delete ==
    /\ Serve
    /\ \E u \in Users, c \in CalcIds : delete_calculation(u, c)

Next == Create \/ List \/ Get \/ Update \/ Delete

Spec == Init /\ [][Next]_vars

---------------------------------------------------------------------------
(* The documented reductions (spec 4.1), stated independently of compute.  *)

DocumentedOp(kind, a, b) ==
    CASE kind = "addition"       -> RAdd(a, b)
      [] kind = "subtraction"    -> RSub(a, b)
      [] kind = "multiplication" -> RMul(a, b)
      [] kind = "division"       -> RQuot(a, b)

RECURSIVE FoldLeft(_, _, _)
FoldLeft(kind, acc, s) ==
    IF s = <<>> THEN acc
    ELSE FoldLeft(kind, DocumentedOp(kind, acc, Head(s)), Tail(s))

DocumentedPower(a, b) ==
    IF b[1] >= 0 THEN RPowNat(a, b[1]) ELSE RQuot(One, RPowNat(a, -b[1]))

DocumentedMod(a, b) == RSub(a, RMul(Rat(RFloor(RQuot(a, b))), b))

DocumentedFold(kind, s) ==
    CASE kind = "multiplication" -> FoldLeft(kind, One, s)
      [] kind = "power"          -> DocumentedPower(s[1], s[2])
      [] kind = "mod"            -> DocumentedMod(s[1], s[2])
      [] OTHER                   -> FoldLeft(kind, Head(s), Tail(s))

TwoInputKinds == {"power", "mod"}

MeetsLength(kind, s) ==
    IF kind \in TwoInputKinds THEN Len(s) = 2 ELSE Len(s) >= 2

ZeroAfterFirst(s) == \E i \in 2..Len(s) : s[i] = Zero

\* a division by zero occurs somewhere in the documented reduction
ZeroDivisor(kind, s) ==
    \/ kind \in {"division", "mod"} /\ ZeroAfterFirst(s)
    \/ kind = "power" /\ Len(s) >= 2 /\ s[1] = Zero /\ s[2][1] < 0

WrongInputCount(kind, s) ==
    \/ Len(s) < 2
    \/ kind \in TwoInputKinds /\ Len(s) # 2

\* the kind a type string of the compute-only endpoint stands for
KindOf(t) ==
    CASE t = "add"      -> "addition"
      [] t = "subtract" -> "subtraction"
      [] t = "multiply" -> "multiplication"
      [] t = "divide"   -> "division"
      [] OTHER          -> t

InputCountErrors ==
    {"At least two inputs are required", "Power expects exactly two inputs",
     "Mod expects exactly two inputs"}

---------------------------------------------------------------------------
(* Properties of compute and of the compute-only endpoint (SpecCompute).   *)

\* C1: for each of the six kinds and every input list that meets the length
\* constraint of the kind and has no zero divisor, compute returns the
\* documented left-to-right fold over ALL inputs.
C1_ComputeIsDocumentedFold ==
    (fn = "compute" /\ ctype \in CalculationType
       /\ MeetsLength(ctype, inputs) /\ ~ZeroDivisor(ctype, inputs))
    => out = Ok(DocumentedFold(ctype, inputs))

\* a subtraction of three inputs whose third input changed the result
C1_Witness ==
    /\ fn = "compute" /\ ctype = "subtraction" /\ Len(inputs) = 3
    /\ out.tag = "ok" /\ out.val # RSub(inputs[1], inputs[2])

\* C2 (as claimed): the compute-only endpoint, for a type and an input list
\* of length >= 2 that meets the length constraint and has no zero divisor,
\* returns the documented fold over the whole input list.
C2_EndpointIsDocumentedFold ==
    (fn = "compute_endpoint" /\ ctype \in ComputeRequestTypes
       /\ MeetsLength(KindOf(ctype), inputs) /\ ~ZeroDivisor(KindOf(ctype), inputs))
    => out = Ok(DocumentedFold(KindOf(ctype), inputs))

\* C3: compute of a division fails with the division-by-zero error whenever
\* any element after the first is zero, whatever its position and whatever
\* the first element; it never returns a number.
C3_DivisionByZeroAlwaysFails ==
    (fn = "compute" /\ ctype = "division" /\ ZeroAfterFirst(inputs))
    => (Raised(out) /\ out.msg = "Cannot divide by zero!")

\* the zero is the third input, after a nonzero second input
C3_Witness ==
    /\ fn = "compute" /\ ctype = "division" /\ Len(inputs) = 3
    /\ inputs[2] # Zero /\ inputs[3] = Zero
    /\ Raised(out)

\* C4 (as claimed): the compute-only endpoint with type "divide" answers
\* 400 whenever any input after the first is zero.
C4_EndpointDivisionByZero400 ==
    (fn = "compute_endpoint" /\ ctype = "divide" /\ ZeroAfterFirst(inputs))
    => StatusOf(out) = 400

\* C5: mod by zero is always an error: mod(a, 0) raises the mod-by-zero
\* error, compute(mod, [a, 0]) fails with that error, and the endpoint with
\* type "mod" and inputs [a, 0] answers 400 (no result, no 422).
C5_ModByZeroIsAnError ==
    (Len(inputs) = 2 /\ inputs[2] = Zero) =>
        /\ fn = "mod" =>
              (Raised(out) /\ out.exc = "ValueError" /\ out.msg = "Cannot mod by zero!")
        /\ (fn = "compute" /\ ctype = "mod") =>
              (Raised(out) /\ out.msg = "Cannot mod by zero!")
        /\ (fn = "compute_endpoint" /\ ctype = "mod") =>
              (StatusOf(out) = 400 /\ out.msg = "Cannot mod by zero!")

\* compute was called with mod and [a, 0], a nonzero
C5_Witness ==
    /\ fn = "compute" /\ ctype = "mod" /\ Len(inputs) = 2
    /\ inputs[1] # Zero /\ inputs[2] = Zero
    /\ Raised(out)

\* C6: compute fails with an input-count error, and returns nothing, for
\* every list shorter than 2 under the four base kinds and every list whose
\* length is not exactly 2 under power or mod.
C6_InputCountError ==
    (fn = "compute" /\ ctype \in CalculationType /\ WrongInputCount(ctype, inputs))
    => (Raised(out) /\ out.status = 400 /\ out.msg \in InputCountErrors)

\* power with three inputs
C6_Witness ==
    /\ fn = "compute" /\ ctype = "power" /\ Len(inputs) = 3
    /\ out.msg = "Power expects exactly two inputs"

\* C7 (as claimed): the compute-only endpoint answers 400 to every request
\* that violates the input-count rule of its type.
C7_EndpointInputCount400 ==
    (fn = "compute_endpoint" /\ ctype \in ComputeRequestTypes
       /\ WrongInputCount(ctype, inputs))
    => StatusOf(out) = 400

\* the domain validation failures of compute
DomainFailure(kind, s) ==
    \/ WrongInputCount(kind, s)
    \/ kind = "division" /\ ZeroAfterFirst(s)
    \/ kind = "mod" /\ ZeroAfterFirst(s)
    \/ kind \notin CalculationType

\* C8 (as claimed): every domain validation failure of compute is signalled
\* as a domain-level error kind, not as the transport-level HTTP error.
C8_DomainLevelError ==
    (fn = "compute" /\ DomainFailure(ctype, inputs))
    => (Raised(out) /\ out.exc # "HTTPException")

\* C8 (amended): every domain validation failure of compute leaves compute
\* as the transport-level error, an HTTPException with status 400.
C8_TransportLevelError ==
    (fn = "compute" /\ DomainFailure(ctype, inputs))
    => (Raised(out) /\ out.exc = "HTTPException" /\ out.status = 400)

\* an unsupported kind, reported from inside the try block
C8_Witness ==
    /\ fn = "compute" /\ ctype = "modulus" /\ Len(inputs) >= 2
    /\ out.msg = "Unsupported operation"

---------------------------------------------------------------------------
(* Properties of the record store (Spec).                                  *)

\* C9: after any sequence of create, update and delete requests by any
\* users, failed requests included, every stored row has inputs its kind
\* accepts and result = reduce(kind, inputs), the documented fold.
C9_ResultIsReduceOfInputs ==
    \A i \in DOMAIN db :
        /\ db[i].type \in PersistedTypes
        /\ MeetsLength(db[i].type, db[i].inputs)
        /\ ~ZeroDivisor(db[i].type, db[i].inputs)
        /\ db[i].result = DocumentedFold(db[i].type, db[i].inputs)

\* a division row got new inputs by an update, and a later update failed
C9_Witness ==
    /\ resp.op = "update" /\ resp.status >= 400
    /\ \E i \in DOMAIN db :
          /\ db[i].type = "division" /\ db[i].updated_at = "updated"
          /\ Len(db[i].inputs) = 3

\* C10 (as claimed, its particular case): an update of an existing division
\* row, by its owner, with inputs that contain a zero divisor is answered
\* 400 and the row keeps its previous inputs and result.
C10_ZeroDivisorUpdateAnswered400 ==
    [][\A u \in Users, c \in DOMAIN db, s \in RequestInputs :
          (/\ Found(u, c) /\ db[c].type = "division" /\ ZeroAfterFirst(s)
           /\ update_calculation(u, c, s))
          => (resp'.status = 400 /\ db' = db)]_vars

---------------------------------------------------------------------------
(* Per-user isolation (Spec).                                              *)

\* the identifiers a path can name: well-formed, existing or not
RowIds == 1..MaxIds

UpdateBodies == RequestInputs \cup {None}

\* the row c exists and user u owns it
Owns(u, c) == c \in DOMAIN db /\ db[c].user_id = u

OwnedRows(u) == {r \in {db[i] : i \in DOMAIN db} : r.user_id = u}

\* the table after the step is the table before it: no row is added, removed
\* or changed
AllRowsKept == db' = db

\* the rows that user u does not own are in the table unchanged after the step
ForeignRowsKept(u) ==
    \/ AllRowsKept
    \/ \A i \in DOMAIN db : db[i].user_id # u => (i \in DOMAIN db' /\ db'[i] = db[i])

\* no row of another user is in the response to u, and none is changed or
\* removed by the step
NoForeignAccess(u) ==
    /\ \A r \in resp'.body : r.user_id = u
    /\ ForeignRowsKept(u)

\* a request of u naming c: if c is a row identifier that names no row of
\* u, the answer is 404 and every row is kept
MissingIs404(u, c) ==
    (c \in RowIds /\ ~Owns(u, c)) => (resp'.status = 404 /\ AllRowsKept)

\* the answer to a request that names no row of the caller: the request
\* schema rejects a too-short inputs list first (422), then the identifier
\* is parsed (400), then the row is looked up (404)
RefusalStatus(c, s) ==
    IF s # None /\ Len(s) < 2 THEN 422 ELSE IF c = BadId THEN 400 ELSE 404

\* a request of u naming c with body s (None where the request has no
\* body): if c names no row of u, the answer is the refusal and every row is
\* kept
MissingIsRefused(u, c, s) ==
    ~Owns(u, c) => (resp'.status = RefusalStatus(c, s) /\ AllRowsKept)

\* The quantified formulas below have the shape  Q \/ ~Handler(...) : the
\* step, if it is that request, satisfies Q.

\* list returns exactly the rows the caller owns
ListIsOwnedRows ==
    resp'.op = "list" =>
        \A u \in Users : resp'.body = OwnedRows(u) \/ ~list_calculations(u)

\* C11 (as claimed): a get, update or delete request naming a row that does
\* not exist or that another user owns is answered 404 and leaves every row
\* unchanged; list returns exactly the caller's rows; no user reads,
\* modifies or deletes a row of another user.
C11_ForeignOrMissingIs404 ==
    [][/\ ListIsOwnedRows
       /\ resp'.op = "get" =>
             \A u \in Users, c \in CalcIds :
                 \/ MissingIs404(u, c) /\ NoForeignAccess(u)
                 \/ ~get_calculation(u, c)
       /\ resp'.op = "update" =>
             \A u \in Users, c \in CalcIds, s \in UpdateBodies :
                 \/ MissingIs404(u, c) /\ NoForeignAccess(u)
                 \/ ~update_calculation(u, c, s)
       /\ resp'.op = "delete" =>
             \A u \in Users, c \in CalcIds :
                 \/ MissingIs404(u, c) /\ NoForeignAccess(u)
                 \/ ~delete_calculation(u, c)]_vars

\* C11 (amended): as claimed, except that an update request whose inputs
\* list has fewer than two elements is answered 422 before the row is looked
\* up, and a request whose identifier is not a well-formed UUID is answered
\* 400; both leave every row unchanged.
C11_ForeignOrMissingIsRefused ==
    [][/\ ListIsOwnedRows
       /\ resp'.op = "get" =>
             \A u \in Users, c \in CalcIds :
                 \/ MissingIsRefused(u, c, None) /\ NoForeignAccess(u)
                 \/ ~get_calculation(u, c)
       /\ resp'.op = "update" =>
             \A u \in Users, c \in CalcIds, s \in UpdateBodies :
                 \/ MissingIsRefused(u, c, s) /\ NoForeignAccess(u)
                 \/ ~update_calculation(u, c, s)
       /\ resp'.op = "delete" =>
             \A u \in Users, c \in CalcIds :
                 \/ MissingIsRefused(u, c, None) /\ NoForeignAccess(u)
                 \/ ~delete_calculation(u, c)]_vars

\* both identifiers name existing rows, of two owners, and an update of one
\* of them was answered 404: the caller was not its owner
C11_Witness ==
    /\ DOMAIN db = RowIds
    /\ \E i, j \in DOMAIN db : db[i].user_id # db[j].user_id
    /\ resp.op = "update" /\ resp.status = 404

---------------------------------------------------------------------------
(* Unsupported kinds (SpecCompute).                                        *)

\* the factory returns the variant of a persisted kind, for the caller and
\* the inputs it was given, and fails with the unsupported-type error on
\* every other kind string
FactorySelectsVariant ==
    fn = "Calculation.create" =>
        IF ctype \in PersistedTypes
        THEN /\ out.tag = "ok"
             /\ out.val.type = ctype
             /\ out.val.inputs = inputs
        ELSE /\ Raised(out)
             /\ out.msg = "Unsupported calculation type"

\* C12 (as claimed): Calculation.create returns the variant matching the
\* kind string for the four persisted kinds and fails with the
\* unsupported-type error for every other kind string; compute fails with
\* the unsupported-operation error for every kind outside the six.
C12_UnsupportedKindFails ==
    /\ FactorySelectsVariant
    /\ (fn = "compute" /\ ctype \notin CalculationType) =>
           (Raised(out) /\ out.msg = "Unsupported operation")

\* C12 (amended): as claimed, where compute is given at least two inputs;
\* given fewer, compute fails with the too-few-inputs error whatever the
\* kind.  No unrecognized kind yields a variant or a number.
C12_UnsupportedKindFailsAfterLengthCheck ==
    /\ FactorySelectsVariant
    /\ (fn = "compute" /\ ctype \notin CalculationType) =>
           /\ Raised(out)
           /\ out.msg = IF Len(inputs) < 2 THEN "At least two inputs are required"
                                           ELSE "Unsupported operation"

\* compute was called with an unrecognized kind on a list long enough to
\* reach the dispatch
C12_Witness ==
    /\ fn = "compute"
    /\ ctype = "modulus"
    /\ Len(inputs) >= 2
    /\ Raised(out)

---------------------------------------------------------------------------
(* get_result against compute (SpecCompute).                               *)

\* C13: for each persisted kind, get_result returns a value exactly when
\* compute does and then the same value; on a list of at least two inputs
\* it fails only as compute does, with the division-by-zero error of a
\* division that has a zero after its first element; on a shorter list it
\* fails with the input error.
C13_GetResultAgreesWithCompute ==
    fn = "get_result" =>
        LET c == compute(ctype, inputs)
        IN  /\ out.tag = "ok" <=> c.tag = "ok"
            /\ out.tag = "ok" => out.val = c.val
            /\ Len(inputs) < 2 =>
                   /\ Raised(out)
                   /\ out.msg = "Inputs must be a list with at least two numbers."
            /\ (Len(inputs) >= 2 /\ Raised(out)) =>
                   /\ ctype = "division"
                   /\ ZeroAfterFirst(inputs)
                   /\ out.msg = "Cannot divide by zero."
                   /\ c.msg = "Cannot divide by zero!"
            /\ (Len(inputs) >= 2 /\ ctype = "division" /\ ZeroAfterFirst(inputs)) =>
                   Raised(out)

\* get_result of a multiplication returned the product of three inputs, none
\* of them 0 or 1
C13_Witness ==
    /\ fn = "get_result"
    /\ ctype = "multiplication"
    /\ Len(inputs) = 3
    /\ \A i \in 1..3 : inputs[i] \notin {Zero, One}
    /\ out.tag = "ok"

---------------------------------------------------------------------------
(* Frame of update and delete (Spec).                                      *)

\* the rows other than c are the same rows before and after the step
OtherRowsKept(c) ==
    /\ DOMAIN db' \ {c} = DOMAIN db \ {c}
    /\ \A i \in DOMAIN db \ {c} : db'[i] = db[i]

\* the update of row c with body s changed at most its inputs, result and
\* updated_at, and neither inputs nor result when the body has no inputs
UpdateFrame(c, s) ==
    /\ c \in DOMAIN db /\ c \in DOMAIN db'
    /\ OtherRowsKept(c)
    /\ [db'[c] EXCEPT !.inputs = db[c].inputs, !.result = db[c].result,
                      !.updated_at = db[c].updated_at] = db[c]
    /\ s = None => (db'[c].inputs = db[c].inputs /\ db'[c].result = db[c].result)

\* the delete of row c removed it and nothing else; no user finds it after
DeleteFrame(c) ==
    /\ c \in DOMAIN db /\ c \notin DOMAIN db'
    /\ OtherRowsKept(c)
    /\ \A u \in Users : ~(Found(u, c))'

\* an identifier that was given out and names no row: its row was deleted
Deleted(c) == c \in 1..nextId /\ c \notin DOMAIN db

\* C14: a successful update changes only the inputs, result and updated_at
\* of the targeted row: its kind, owner and identifier stay, every other
\* row is unchanged, and without inputs in the request its inputs and
\* result are unchanged too.  A successful delete removes exactly the
\* targeted row; its identifier is never given to a new row, and a get of it
\* is answered 404.
C14_UpdateAndDeleteFrame ==
    [][/\ (resp'.op = "update" /\ resp'.status = 200) =>
              \A u \in Users, c \in CalcIds, s \in UpdateBodies :
                  UpdateFrame(c, s) \/ ~update_calculation(u, c, s)
       /\ (resp'.op = "delete" /\ resp'.status = 204) =>
              \A u \in Users, c \in CalcIds :
                  DeleteFrame(c) \/ ~delete_calculation(u, c)
       /\ \A c \in CalcIds : Deleted(c) => Deleted(c)'
       /\ resp'.op = "get" =>
              \A u \in Users, c \in CalcIds :
                  \/ Deleted(c) => resp'.status = 404
                  \/ ~get_calculation(u, c)]_vars

\* two rows are stored, the update of one was answered 200, the other has
\* never been updated and holds another result
C14_Witness ==
    /\ resp.op = "update" /\ resp.status = 200
    /\ \E i, j \in DOMAIN db :
           /\ {db[i]} = resp.body
           /\ db[i].updated_at = "updated"
           /\ db[i].result # db[j].result
           /\ db[j].updated_at # "updated"

===========================================================================
